---- MODULE Spec2Model ----
(***************************************************************************)
(* State-machine model of server.ts (Deno live-transcription proxy):       *)
(* the nonce store, the session-token endpoint, the WebSocket upgrade       *)
(* gatekeeper and the paired-socket proxy session.                          *)
(*                                                                          *)
(* Conventions.                                                             *)
(*  - Time is Date.now() in milliseconds, counted from process start.       *)
(*  - A string is a sequence of symbols; a generated nonce (32 hex digits,  *)
(*    128 random bits) is the one-symbol string <<k>>, k the number of the  *)
(*    page serve that produced it: generated values never repeat.           *)
(*  - A nullable value is a record [some, str].                             *)
(***************************************************************************)
EXTENDS Integers, Sequences, FiniteSets, TLC

\* ------------------------------------------------------------------ bounds
MaxTicks == 3
MaxNonces == 2
MaxRequests == 3
MaxMsgs == 3
MaxGateTicks == 3
MaxPairMsgs == 2

\* --------------------------------------------------------------- constants
NONCE_TTL_MS == 5 * 60 * 1000
SWEEP_INTERVAL_MS == 60 * 1000
JWT_EXPIRY_S == 60 * 60
HALF_HOUR_MS == 30 * 60 * 1000
HALF_TTL_MS == NONCE_TTL_MS \div 2

VARIABLES
    now,                \* Date.now()
    REQUIRE_NONCE,      \* !!Deno.env.get("SESSION_SECRET")
    indexHtmlTemplate,  \* TRUE when frontend/dist/index.html was read at startup
    sessionNonces,      \* Map<string, number>: nonce -> expiry
    nonceCount,         \* number of nonces generated so far
    issuedAt,           \* history: nonce -> Date.now() when it was generated
    tried,              \* history: nonces consumeNonce has been called with
    granted,            \* history: nonces consumeNonce has returned true for, with the count
    last,               \* history: the last GET /api/session handled
    nSession,           \* history: number of GET /api/session handled
    signing,            \* handleGetSession calls suspended at `await createSessionToken()`
    responses,          \* history: number of 200 responses of GET /api/session returned
    sess,               \* session id -> the state of one handleLiveTranscription call
    gate,               \* history: the last request handled on the live-transcription route
    routed              \* history: the last request handleRequest answered, and its response

authVars == <<now, REQUIRE_NONCE, indexHtmlTemplate, sessionNonces, nonceCount,
              issuedAt, tried, granted, last, nSession, signing, responses>>

vars == <<authVars, sess, gate, routed>>

\* ----------------------------------------------------------------- values
NULL == [some |-> FALSE, str |-> <<>>]
Some(s) == [some |-> TRUE, str |-> s]
\* JavaScript truthiness of a string | null
Truthy(h) == h.some /\ h.str # <<>>

UnknownNonce == <<0>>
NonceOf(k) == <<k>>

\* ------------------------------------------------------------- Map helpers
MapSet(m, k, v) == [x \in (DOMAIN m) \cup {k} |-> IF x = k THEN v ELSE m[x]]
MapDelete(m, k) == [x \in (DOMAIN m) \ {k} |-> m[x]]
MapHas(m, k) == k \in DOMAIN m
EmptyMap == [x \in {} |-> 0]

\* ------------------------------------------------------------- nonce store
\* (mutant) generateNonce returning the same value every time
generateNonceRepeating(count) == NonceOf(1)

\* generateNonce(): a value not generated before
generateNonce(count) == NonceOf(count + 1)

\* consumeNonce, line 76-77: `const expiry = get(nonce); if (!expiry) return false`
ConsumeFound(m, nonce) == MapHas(m, nonce) /\ m[nonce] # 0

\* (mutant) consumeNonce without the expiry test of line 79
ConsumeResultNoExpiry(m, nonce, t) == ConsumeFound(m, nonce)

\* consumeNonce, the value returned
ConsumeResult(m, nonce, t) ==
    IF ~ConsumeFound(m, nonce) THEN FALSE ELSE t < m[nonce]

\* (mutant) consumeNonce without the delete of line 78
ConsumeStoreNoDelete(m, nonce) == m

\* consumeNonce, the store it leaves
ConsumeStore(m, nonce) ==
    IF ~ConsumeFound(m, nonce) THEN m ELSE MapDelete(m, nonce)

\* the loop of the sweep: delete every entry with now >= expiry
SweepStore(m, t) ==
    [x \in {k \in DOMAIN m : ~(t >= m[k])} |-> m[x]]

\* ------------------------------------------------------------------ tokens
\* (mutant) createSessionToken with an expiry of one minute
createSessionTokenOneMinute(t) ==
    [wellformed |-> TRUE, key |-> "server", intact |-> TRUE,
     iat |-> t \div 1000, exp |-> (t \div 1000) + 60]

\* createSessionToken: HS256 JWT, iat = floor(now/1000), exp = iat + 1h,
\* signed with SESSION_SECRET_KEY
createSessionToken(t) ==
    [wellformed |-> TRUE, key |-> "server", intact |-> TRUE,
     iat |-> t \div 1000, exp |-> (t \div 1000) + JWT_EXPIRY_S]

NoToken == [wellformed |-> FALSE, key |-> "none", intact |-> FALSE, iat |-> 0, exp |-> 0]

\* verifySessionToken: jose.jwtVerify resolves iff the token parses, its
\* HS256 signature matches SESSION_SECRET_KEY and exp is in the future
verifySessionToken(tok, t) ==
    /\ tok.wellformed
    /\ tok.key = "server"
    /\ tok.intact
    /\ (t \div 1000) < tok.exp

\* ------------------------------------------------------------------- Init
NoLast == [hdr |-> NULL, at |-> 0, consume |-> "notcalled", first |-> FALSE,
           present |-> FALSE, status |-> 0, code |-> "", token |-> NoToken]

AuthInit ==
    /\ now = 0
    /\ REQUIRE_NONCE \in BOOLEAN
    /\ indexHtmlTemplate \in BOOLEAN
    /\ sessionNonces = EmptyMap
    /\ nonceCount = 0
    /\ issuedAt = EmptyMap
    /\ tried = {}
    /\ granted = EmptyMap
    /\ last = NoLast
    /\ nSession = 0
    /\ signing = 0
    /\ responses = 0

\* ---------------------------------------------------------------- actions
\* Time passes by d milliseconds.
Tick(d, limit) ==
    /\ now + d <= limit
    /\ now' = now + d
    /\ UNCHANGED <<REQUIRE_NONCE, indexHtmlTemplate, sessionNonces, nonceCount,
                   issuedAt, tried, granted, last, nSession, signing, responses,
                   sess, gate, routed>>

\* setInterval(..., 60_000): the periodic sweep of expired nonces
Sweep ==
    /\ now >= SWEEP_INTERVAL_MS
    /\ sessionNonces' = SweepStore(sessionNonces, now)
    /\ UNCHANGED <<now, REQUIRE_NONCE, indexHtmlTemplate, nonceCount, issuedAt,
                   tried, granted, last, nSession, signing, responses, sess, gate,
                   routed>>

\* handleServeIndex: GET / or /index.html
handleServeIndex ==
    /\ nonceCount < MaxNonces
    /\ IF ~indexHtmlTemplate
       THEN UNCHANGED <<sessionNonces, nonceCount, issuedAt>>
       ELSE LET nonce == generateNonce(nonceCount)
                expiry == now + NONCE_TTL_MS
            IN /\ sessionNonces' = MapSet(SweepStore(sessionNonces, now), nonce, expiry)
               /\ nonceCount' = nonceCount + 1
               /\ issuedAt' = MapSet(issuedAt, nonce, now)
    /\ UNCHANGED <<now, REQUIRE_NONCE, indexHtmlTemplate, tried, granted, last,
                   nSession, signing, responses, sess, gate>>

\* The X-Session-Nonce header values a client can send
NonceHeaders ==
    {NULL, Some(<<>>), Some(UnknownNonce)} \cup {Some(NonceOf(k)) : k \in 1..nonceCount}

\* (mutant) the nonce consumed whenever the header carries one
ConsumeCalledAnyMode(require, hdr) == Truthy(hdr)

\* handleGetSession, line 338-340: is consumeNonce called for this header
ConsumeCalled(require, hdr) == require /\ Truthy(hdr)

\* (mutant) handleGetSession refusing only a request without the header
SessionRejectedHeaderOnly(require, hdr, m, t) == require /\ ~Truthy(hdr)

\* (mutant) handleGetSession checking the nonce only when the header is there
SessionRejectedIfPresent(require, hdr, m, t) ==
    require /\ Truthy(hdr) /\ ~ConsumeResult(m, hdr.str, t)

\* handleGetSession, line 338-346: is the request answered 403
SessionRejected(require, hdr, m, t) ==
    require /\ (~Truthy(hdr) \/ ~ConsumeResult(m, hdr.str, t))

\* handleGetSession up to its await: the nonce check (lines 338-346) and the
\* synchronous part of createSessionToken
handleGetSession(hdr) ==
    /\ nSession < MaxRequests
    /\ LET called == ConsumeCalled(REQUIRE_NONCE, hdr)
           ok == ConsumeResult(sessionNonces, hdr.str, now)
           rejected == SessionRejected(REQUIRE_NONCE, hdr, sessionNonces, now)
       IN /\ sessionNonces' = IF called THEN ConsumeStore(sessionNonces, hdr.str)
                              ELSE sessionNonces
          /\ tried' = IF called THEN tried \cup {hdr.str} ELSE tried
          /\ granted' = IF called /\ ok
                        THEN MapSet(granted, hdr.str,
                                    IF MapHas(granted, hdr.str)
                                    THEN granted[hdr.str] + 1 ELSE 1)
                        ELSE granted
          /\ last' = [hdr |-> hdr, at |-> now,
                      consume |-> IF ~called THEN "notcalled"
                                  ELSE IF ok THEN "true" ELSE "false",
                      first |-> hdr.str \notin tried,
                      present |-> MapHas(sessionNonces, hdr.str),
                      status |-> IF rejected THEN 403 ELSE 200,
                      code |-> IF rejected THEN "INVALID_NONCE" ELSE "",
                      token |-> IF rejected THEN NoToken ELSE createSessionToken(now)]
          /\ signing' = IF rejected THEN signing ELSE signing + 1
    /\ nSession' = nSession + 1
    /\ UNCHANGED <<now, REQUIRE_NONCE, indexHtmlTemplate, nonceCount, issuedAt,
                   responses, sess, gate>>

\* handleGetSession after the await: Response.json({ token })
GetSessionRespond ==
    /\ signing > 0
    /\ signing' = signing - 1
    /\ responses' = responses + 1
    /\ UNCHANGED <<now, REQUIRE_NONCE, indexHtmlTemplate, sessionNonces, nonceCount,
                   issuedAt, tried, granted, last, nSession, sess, gate, routed>>

\* ========================================================================
\* HTTP requests and routing
\* ========================================================================
Request(method, path, upgrade, protocols, query, nonce) ==
    [method |-> method, path |-> path, upgrade |-> upgrade,
     protocols |-> protocols, query |-> query, nonce |-> nonce]

\* handleRequest: the order of its route tests
Route(req) ==
    IF req.method = "OPTIONS" THEN "preflight"
    ELSE IF req.path = "/" \/ req.path = "/index.html" THEN "index"
    ELSE IF req.method = "GET" /\ req.path = "/api/session" THEN "session"
    ELSE IF req.path = "/api/live-transcription" THEN "live"
    ELSE IF req.method = "GET" /\ req.path = "/api/metadata" THEN "metadata"
    ELSE "notfound"

\* `headers.get(name) || ""`
OrEmpty(h) == IF Truthy(h) THEN h.str ELSE <<>>

\* String.prototype.toLowerCase on the header symbols used here
LowerSym(c) == IF c = "WebSocket" THEN "websocket" ELSE c
toLowerCase(str) == [i \in DOMAIN str |-> LowerSym(str[i])]

\* A Sec-WebSocket-Protocol header is a comma-separated list; it is held as the
\* sequence of its entries, each [ws, pre, body]: optional surrounding white
\* space, a leading chunk and the rest of the entry (a JWT, or nothing).
Entry(ws, pre, body) == [ws |-> ws, pre |-> pre, body |-> body]
EmptyEntry == Entry(FALSE, "", NoToken)

\* String.prototype.trim
trim(e) == [e EXCEPT !.ws = FALSE]

\* `protocols.split(",").map((p) => p.trim())`; "".split(",") is [""]
protocolList(header) ==
    LET str == OrEmpty(header)
    IN IF str = <<>> THEN <<EmptyEntry>> ELSE [i \in DOMAIN str |-> trim(str[i])]

\* `p.startsWith("access_token.")`
startsWithAccessToken(e) == ~e.ws /\ e.pre = "access_token."

\* Array.prototype.find: the index of the first matching entry, 0 when none
findTokenProto(list) ==
    LET hits == {i \in DOMAIN list : startsWithAccessToken(list[i])}
    IN IF hits = {} THEN 0 ELSE CHOOSE i \in hits : \A j \in hits : i <= j

\* `tokenProto.slice("access_token.".length)`
sliceToken(e) == e.body

\* ========================================================================
\* Proxy session (handleLiveTranscription)
\* ========================================================================
SessionIds == {1, 2}
SETUP_FAILED_CODE == 3000

DEFAULT_MODEL == <<"nova-2">>
DEEPGRAM_WS_URL == <<"wss://api.deepgram.com/v1/listen">>

ParamNames == {"model", "encoding", "sample_rate", "channels", "punctuate", "interim_results"}

\* `queryParams.get(name) || dflt`
ParamOr(q, name, dflt) == IF Truthy(q[name]) THEN q[name].str ELSE dflt

\* buildDeepgramUrl: the template string of line 187
buildDeepgramUrl(q) ==
    DEEPGRAM_WS_URL
      \o <<"?", "model", "=">> \o ParamOr(q, "model", DEFAULT_MODEL)
      \o <<"&", "encoding", "=">> \o ParamOr(q, "encoding", <<"linear16">>)
      \o <<"&", "sample_rate", "=">> \o ParamOr(q, "sample_rate", <<"16000">>)
      \o <<"&", "channels", "=">> \o ParamOr(q, "channels", <<"1">>)
      \o <<"&", "punctuate", "=">> \o ParamOr(q, "punctuate", <<"true">>)
      \o <<"&", "interim_results", "=">> \o ParamOr(q, "interim_results", <<"true">>)

\* `new WebSocket(url, ...)` throws a SyntaxError for a URL with a fragment
WebSocketThrows(url) == \E i \in DOMAIN url : url[i] = "#"

NoSession ==
    [pc |-> "absent",          \* position of handleLiveTranscription
     clientSocket |-> "NONE",  \* clientSocket.readyState
     deepgramWs |-> "NULL",    \* deepgramWs: null or its readyState
     toClient |-> <<>>,        \* calls on clientSocket: each send(frame), each close(args)
     toUpstream |-> <<>>,      \* payloads passed to deepgramWs.send
     protocol |-> EmptyEntry,  \* subprotocol accepted in the upgrade
     url |-> <<>>,             \* URL dialed
     fromClient |-> <<>>,      \* history: message events of clientSocket
     fromUpstream |-> <<>>,    \* history: message events of deepgramWs
     failure |-> "none",       \* history: what led into the catch block
     clientAtFailure |-> "NONE", \* history: clientSocket.readyState when caught
     clientClosedIn |-> "None", \* history: lifecycle state at the client's close event
     query |-> [n \in ParamNames |-> NULL], \* history: url.searchParams of the request
     upstreamEnd |-> "none",   \* history: "close" or "error", the event that ended deepgramWs
     upstreamEndIn |-> "None", \* history: lifecycle state at that event
     clientAtUpstreamEnd |-> "NONE" \* history: clientSocket.readyState at that event
    ]

\* clientSocket.send(event.data)
DataFrame(d) ==
    [kind |-> "data", data |-> d, code |-> "", description |-> "", args |-> <<>>]
\* clientSocket.send(JSON.stringify({type: "Error", description, code}))
ErrorFrame(description, code) ==
    [kind |-> "error", data |-> "", code |-> code, description |-> description,
     args |-> <<>>]
\* clientSocket.close(...args)
CloseCall(args) ==
    [kind |-> "close", data |-> "", code |-> "", description |-> "", args |-> args]

\* (mutant) a send that overtakes the calls made before it
WireSendFront(out, x) == <<x>> \o out

\* A call on a socket goes on the wire after the calls made before it
WireSend(out, x) == Append(out, x)

\* WebSocket.close(): starts the closing handshake unless closing or closed
CloseSocket(state) ==
    IF state \in {"CONNECTING", "OPEN"} THEN "CLOSING" ELSE state

\* sendError(socket, error, code)
sendError(S, description, code) ==
    IF S.clientSocket = "OPEN"
    THEN [S EXCEPT !.toClient = WireSend(@, ErrorFrame(description, code))]
    ELSE S

\* (mutant) the close of the client socket left out
CloseClientSkipped(S, args) == S

\* `if (clientSocket.readyState === WebSocket.OPEN) clientSocket.close(args)`
CloseClientIfOpen(S, args) ==
    IF S.clientSocket = "OPEN"
    THEN [S EXCEPT !.clientSocket = "CLOSING", !.toClient = WireSend(@, CloseCall(args))]
    ELSE S

\* `if (deepgramWs) deepgramWs.close()`
CloseUpstream(S) ==
    IF S.deepgramWs # "NULL"
    THEN [S EXCEPT !.deepgramWs = CloseSocket(@)]
    ELSE S

\* The lifecycle state of section 4.5 that a session record is in
Lifecycle(S) ==
    IF S.pc = "absent" THEN "None"
    ELSE IF S.pc = "dialing" THEN "Connecting"
    ELSE IF S.pc = "relaying" /\ S.deepgramWs = "OPEN"
            /\ S.clientSocket \in {"CONNECTING", "OPEN"} THEN "Relaying"
    ELSE IF S.clientSocket = "CLOSED" /\ S.deepgramWs \in {"NULL", "CLOSED"} THEN "Closed"
    ELSE "Closing"

\* catch (err) { ... }, lines 294-303
CatchSetup(S, description, cause) ==
    LET S0 == [S EXCEPT !.failure = cause, !.clientAtFailure = S.clientSocket]
        S1 == sendError(S0, description, "CONNECTION_FAILED")
        S2 == CloseClientIfOpen(S1, <<SETUP_FAILED_CODE, "Setup failed">>)
        S3 == CloseUpstream(S2)
    IN [S3 EXCEPT !.pc = "failed"]

\* handleLiveTranscription up to its await (lines 216-233)
StartSession(protocol, query) ==
    LET url == buildDeepgramUrl(query)
        S == [NoSession EXCEPT !.clientSocket = "CONNECTING", !.protocol = protocol,
                               !.url = url, !.query = query]
    IN IF WebSocketThrows(url)
       THEN CatchSetup(S, "Invalid URL", "throw")
       ELSE [S EXCEPT !.pc = "dialing", !.deepgramWs = "CONNECTING"]

\* (mutant) clientSocket.onmessage without the readyState test
ClientOnMessageUnguarded(S, d) == [S EXCEPT !.toUpstream = WireSend(@, d)]

\* clientSocket.onmessage, lines 248-252
ClientOnMessage(S, d) ==
    IF S.deepgramWs # "NULL" /\ S.deepgramWs = "OPEN"
    THEN [S EXCEPT !.toUpstream = WireSend(@, d)]
    ELSE S

\* deepgramWs.onmessage, lines 255-259
UpstreamOnMessage(S, d) ==
    IF S.clientSocket = "OPEN"
    THEN [S EXCEPT !.toClient = WireSend(@, DataFrame(d))]
    ELSE S

\* (mutant) clientSocket.onclose that only logs
ClientOnCloseLogOnly(S) == S

\* clientSocket.onclose, lines 262-267
ClientOnClose(S) == CloseUpstream(S)

\* clientSocket.onerror, lines 270-275
ClientOnError(S) == CloseUpstream(S)

\* deepgramWs.onclose, lines 278-283
UpstreamOnClose(S) == CloseClientIfOpen(S, <<>>)

\* (mutant) deepgramWs.onerror that closes the client without an error frame
UpstreamOnErrorSilent(S) == CloseClientIfOpen(S, <<>>)

\* deepgramWs.onerror once relaying, lines 286-292
UpstreamOnError(S) ==
    CloseClientIfOpen(sendError(S, "Deepgram connection error", "DEEPGRAM_ERROR"), <<>>)

\* The handlers of lines 248-292 are attached only once the await has returned
Wired(S) == S.pc = "relaying"

\* ------------------------------------------------------------------------
\* Upgrade gatekeeper: the live-transcription branch of handleRequest
\* ------------------------------------------------------------------------
GateResult(status, protocol) == [status |-> status, protocol |-> protocol]

\* (mutant) the gatekeeper accepting any access_token. entry unverified
gatekeeperNoVerify(req, t) ==
    IF toLowerCase(OrEmpty(req.upgrade)) # <<"websocket">>
    THEN GateResult(426, EmptyEntry)
    ELSE LET list == protocolList(req.protocols)
             i == findTokenProto(list)
         IN IF i = 0 THEN GateResult(401, EmptyEntry) ELSE GateResult(101, list[i])

\* (mutant) the gatekeeper testing the token before the upgrade header
gatekeeperTokenFirst(req, t) ==
    LET list == protocolList(req.protocols)
        i == findTokenProto(list)
    IN IF i = 0
       THEN GateResult(401, EmptyEntry)
       ELSE IF ~verifySessionToken(sliceToken(list[i]), t)
            THEN GateResult(401, EmptyEntry)
            ELSE IF toLowerCase(OrEmpty(req.upgrade)) # <<"websocket">>
                 THEN GateResult(426, EmptyEntry)
                 ELSE GateResult(101, list[i])

\* lines 423-447: the tests made before the upgrade, in their order
gatekeeper(req, t) ==
    IF toLowerCase(OrEmpty(req.upgrade)) # <<"websocket">>
    THEN GateResult(426, EmptyEntry)
    ELSE LET list == protocolList(req.protocols)
             i == findTokenProto(list)
         IN IF i = 0
            THEN GateResult(401, EmptyEntry)
            ELSE IF ~verifySessionToken(sliceToken(list[i]), t)
                 THEN GateResult(401, EmptyEntry)
                 ELSE GateResult(101, list[i])

FreeIds(ids) == {s \in ids : sess[s].pc = "absent"}

\* handleRequest for a request routed to /api/live-transcription; an accepted
\* upgrade runs handleLiveTranscription up to its await
handleLiveRequest(req, ids) ==
    /\ Route(req) = "live"
    /\ LET r == gatekeeper(req, now)
       IN IF r.status = 101
          THEN /\ FreeIds(ids) # {}
               /\ LET s == CHOOSE x \in FreeIds(ids) : \A y \in FreeIds(ids) : x <= y
                  IN /\ sess' = [sess EXCEPT ![s] = StartSession(r.protocol, req.query)]
                     /\ gate' = [req |-> req, at |-> now, status |-> 101,
                                 protocol |-> r.protocol, sid |-> s]
          ELSE /\ sess' = sess
               /\ gate' = [req |-> req, at |-> now, status |-> r.status,
                           protocol |-> r.protocol, sid |-> 0]
    /\ UNCHANGED authVars

\* The response handleRequest returns: its status and the kind of its body
Response(req, status, body) == [req |-> req, status |-> status, body |-> body]

\* handleRequest, lines 405-465: one request dispatched and answered
handleRequest(req) ==
    \/ /\ Route(req) = "preflight"
       /\ routed' = Response(req, 204, "none")
       /\ UNCHANGED <<authVars, sess, gate>>
    \/ /\ Route(req) = "index"
       /\ handleServeIndex
       /\ routed' = IF indexHtmlTemplate THEN Response(req, 200, "html")
                    ELSE Response(req, 404, "text")
    \/ /\ Route(req) = "session"
       /\ handleGetSession(req.nonce)
       /\ routed' = Response(req, last'.status, "json")
    \/ /\ Route(req) = "live"
       /\ handleLiveRequest(req, {1})
       /\ routed' = Response(req, gate'.status, IF gate'.status = 101 THEN "none" ELSE "text")
    \/ /\ Route(req) = "metadata"
       /\ \E status \in {200, 500} : routed' = Response(req, status, "json")
       /\ UNCHANGED <<authVars, sess, gate>>
    \/ /\ Route(req) = "notfound"
       /\ routed' = Response(req, 404, "json")
       /\ UNCHANGED <<authVars, sess, gate>>

\* ------------------------------------------------------------------------
\* Socket events of one session
\* ------------------------------------------------------------------------
Payloads == {"a", "b"}

RECURSIVE MsgsIn(_)
MsgsIn(ids) ==
    IF ids = {} THEN 0
    ELSE LET s == CHOOSE x \in ids : TRUE
         IN Len(sess[s].fromClient) + Len(sess[s].fromUpstream) + MsgsIn(ids \ {s})

MsgCount == MsgsIn(SessionIds)

\* (mutant) deepgramWs kept in one variable shared by all sessions
EventSharedUpstream(s, S) ==
    /\ sess' = [x \in SessionIds |->
                  IF x = s THEN S ELSE [sess[x] EXCEPT !.deepgramWs = S.deepgramWs]]
    /\ UNCHANGED <<authVars, gate, routed>>

Event(s, S) ==
    /\ sess' = [sess EXCEPT ![s] = S]
    /\ UNCHANGED <<authVars, gate, routed>>

\* The upgrade response has been written: the client socket opens
ClientOpen(s) ==
    /\ sess[s].clientSocket = "CONNECTING"
    /\ Event(s, [sess[s] EXCEPT !.clientSocket = "OPEN"])

\* A message event of the client socket
ClientMessage(s, d) ==
    /\ sess[s].clientSocket \in {"OPEN", "CLOSING"}
    /\ MsgCount < MaxMsgs
    /\ LET S == sess[s]
           R == [S EXCEPT !.fromClient =
                     Append(@, [data |-> d, open |-> (S.deepgramWs = "OPEN")])]
       IN Event(s, IF Wired(R) THEN ClientOnMessage(R, d) ELSE R)

\* The close event of the client socket
ClientClose(s) ==
    /\ sess[s].clientSocket \in {"OPEN", "CLOSING"}
    /\ LET S == sess[s]
           R == [S EXCEPT !.clientSocket = "CLOSED", !.clientClosedIn = Lifecycle(S)]
       IN Event(s, IF Wired(R) THEN ClientOnClose(R) ELSE R)

\* The error event of the client socket, followed by its close event
ClientError(s) ==
    /\ sess[s].clientSocket \in {"CONNECTING", "OPEN", "CLOSING"}
    /\ LET S == sess[s]
           R == [S EXCEPT !.clientSocket = "CLOSED", !.clientClosedIn = Lifecycle(S)]
       IN Event(s, IF Wired(R) THEN ClientOnClose(ClientOnError(R)) ELSE R)

\* deepgramWs.onopen, lines 236-239: the await returns and lines 247-292 run
UpstreamOpen(s) ==
    /\ sess[s].pc = "dialing"
    /\ sess[s].deepgramWs = "CONNECTING"
    /\ Event(s, [sess[s] EXCEPT !.deepgramWs = "OPEN", !.pc = "relaying"])

\* deepgramWs.onerror while dialing, lines 241-244: reject, then the catch block
UpstreamDialError(s) ==
    /\ sess[s].pc = "dialing"
    /\ sess[s].deepgramWs = "CONNECTING"
    /\ Event(s, CatchSetup([sess[s] EXCEPT !.deepgramWs = "CLOSED"],
                           "Failed to connect to Deepgram", "dial"))

\* A message event of the upstream socket
UpstreamMessage(s, d) ==
    /\ sess[s].deepgramWs \in {"OPEN", "CLOSING"}
    /\ MsgCount < MaxMsgs
    /\ LET S == sess[s]
           R == [S EXCEPT !.fromUpstream =
                     Append(@, [data |-> d, open |-> (S.clientSocket = "OPEN")])]
       IN Event(s, IF Wired(R) THEN UpstreamOnMessage(R, d) ELSE R)

\* The close event of the upstream socket
UpstreamClose(s) ==
    /\ sess[s].deepgramWs \in {"OPEN", "CLOSING"}
    /\ LET S == sess[s]
           R == [S EXCEPT !.deepgramWs = "CLOSED", !.upstreamEnd = "close",
                          !.upstreamEndIn = Lifecycle(S),
                          !.clientAtUpstreamEnd = S.clientSocket]
       IN Event(s, IF Wired(R) THEN UpstreamOnClose(R) ELSE R)

\* The error event of the open upstream socket, followed by its close event
UpstreamError(s) ==
    /\ sess[s].deepgramWs \in {"OPEN", "CLOSING"}
    /\ LET S == sess[s]
           R == [S EXCEPT !.deepgramWs = "CLOSED", !.upstreamEnd = "error",
                          !.upstreamEndIn = Lifecycle(S),
                          !.clientAtUpstreamEnd = S.clientSocket]
       IN Event(s, IF Wired(R) THEN UpstreamOnClose(UpstreamOnError(R)) ELSE R)

\* ========================================================================
\* Requests the environment sends
\* ========================================================================
NoQuery == [n \in ParamNames |-> NULL]
FragmentQuery == [NoQuery EXCEPT !["model"] = Some(<<"a", "#", "b">>)]

\* ?model=x%26encoding%3Dopus: searchParams.get("model") is "x&encoding=opus"
InjectedModel == <<"x", "&", "encoding", "=", "opus">>

\* The values of url.searchParams a client can send, parameter by parameter
ParamValues(n) ==
    IF n = "model"
    THEN {NULL, Some(<<"nova-3">>), Some(InjectedModel), Some(<<"a", "#", "b">>)}
    ELSE IF n = "encoding" THEN {NULL, Some(<<"opus">>)}
    ELSE IF n = "sample_rate" THEN {NULL, Some(<<"8000">>)}
    ELSE IF n = "channels" THEN {NULL, Some(<<"2">>)}
    ELSE {NULL, Some(<<"false">>)}

UrlQueries == {q \in [ParamNames -> {NULL} \cup UNION {ParamValues(n) : n \in ParamNames}] :
                  \A n \in ParamNames : q[n] \in ParamValues(n)}

TokenEntry(tok) == Entry(FALSE, "access_token.", tok)
OtherEntry == Entry(FALSE, "chat", NoToken)

ValidToken == createSessionToken(0)
TamperedToken == [ValidToken EXCEPT !.intact = FALSE]
ForeignToken == [ValidToken EXCEPT !.key = "other"]
UnsignedToken == [ValidToken EXCEPT !.key = "none"]
LaterToken == createSessionToken(HALF_HOUR_MS)

GateProtocols ==
    {NULL, Some(<<OtherEntry>>),
     Some(<<TokenEntry(ValidToken)>>), Some(<<TokenEntry(LaterToken)>>),
     Some(<<TokenEntry(TamperedToken)>>), Some(<<TokenEntry(ForeignToken)>>),
     Some(<<TokenEntry(NoToken)>>), Some(<<TokenEntry(UnsignedToken)>>),
     Some(<<Entry(FALSE, "access_token", ValidToken)>>),
     Some(<<OtherEntry, Entry(TRUE, "access_token.", ValidToken)>>),
     Some(<<TokenEntry(TamperedToken), TokenEntry(ValidToken)>>)}

GateUpgrades == {NULL, Some(<<"WebSocket">>), Some(<<"h2c">>)}

GateRequests ==
    {Request(m, "/api/live-transcription", u, p, q, NULL) :
        m \in {"GET", "POST"}, u \in GateUpgrades, p \in GateProtocols, q \in {NoQuery}}

ProxyRequests ==
    {Request("GET", "/api/live-transcription", Some(<<"websocket">>),
             Some(<<TokenEntry(ValidToken)>>), q, NULL) : q \in {NoQuery, FragmentQuery}}

UrlRequests ==
    {Request("GET", "/api/live-transcription", Some(<<"websocket">>),
             Some(<<TokenEntry(ValidToken)>>), q, NULL) : q \in UrlQueries}

RouterMethods == {"GET", "POST", "OPTIONS"}
RouterPaths == {"/", "/index.html", "/api/session", "/api/live-transcription",
                "/api/metadata", "/api/other"}

\* Every method on every path with no headers, and the session and upgrade
\* requests with their headers
RouterRequests ==
    {Request(m, p, NULL, NULL, NoQuery, NULL) : m \in RouterMethods, p \in RouterPaths}
    \cup {Request(m, "/api/session", NULL, NULL, NoQuery, Some(NonceOf(1))) :
             m \in {"GET", "POST"}}
    \cup {Request(m, "/api/live-transcription", Some(<<"websocket">>),
                  Some(<<TokenEntry(ValidToken)>>), NoQuery, NULL) : m \in {"GET", "POST"}}

\* ========================================================================
\* Specifications
\* ========================================================================
NoGate == [req |-> Request("", "", NULL, NULL, NoQuery, NULL), at |-> 0, status |-> 0,
           protocol |-> EmptyEntry, sid |-> 0]

NoRouted == [req |-> Request("", "", NULL, NULL, NoQuery, NULL), status |-> 0,
             body |-> "none"]

Init ==
    /\ AuthInit
    /\ sess = [s \in SessionIds |-> NoSession]
    /\ gate = NoGate
    /\ routed = NoRouted

\* The nonce store and the session endpoint
Next ==
    \/ Tick(HALF_TTL_MS, MaxTicks * HALF_TTL_MS)
    \/ Sweep
    \/ handleServeIndex /\ UNCHANGED routed
    \/ \E hdr \in NonceHeaders : handleGetSession(hdr) /\ UNCHANGED routed
    \/ GetSessionRespond

Spec == Init /\ [][Next]_vars

\* The upgrade gatekeeper
GateNext ==
    \/ Tick(HALF_HOUR_MS, MaxGateTicks * HALF_HOUR_MS)
    \/ \E req \in GateRequests : handleLiveRequest(req, {1}) /\ UNCHANGED routed

GateSpec == Init /\ [][GateNext]_vars

\* One proxy session
ProxyNext ==
    \/ \E req \in ProxyRequests : handleLiveRequest(req, {1}) /\ UNCHANGED routed
    \/ \E s \in {1} :
        \/ ClientOpen(s)
        \/ \E d \in Payloads : ClientMessage(s, d)
        \/ ClientClose(s)
        \/ ClientError(s)
        \/ UpstreamOpen(s)
        \/ UpstreamDialError(s)
        \/ \E d \in Payloads : UpstreamMessage(s, d)
        \/ UpstreamClose(s)
        \/ UpstreamError(s)

ProxySpec == Init /\ [][ProxyNext]_vars

\* One proxy session under the scheduling the server itself guarantees:
\* handleRequest returns the upgrade response without waiting for the dial
\* (line 450 is not awaited), so a connecting client socket opens. Nothing
\* is assumed of the upstream: its open and error events may never come.
ProxyFairSpec == ProxySpec /\ WF_vars(\E s \in {1} : ClientOpen(s))

\* The router: requests of every kind, one after the other
RouterNext ==
    \/ \E req \in RouterRequests : handleRequest(req)
    \/ GetSessionRespond

RouterSpec == Init /\ [][RouterNext]_vars

\* buildDeepgramUrl applied to the query of an accepted upgrade
UrlNext == \E req \in UrlRequests : handleLiveRequest(req, {1}) /\ UNCHANGED routed

UrlSpec == Init /\ [][UrlNext]_vars

\* Two proxy sessions side by side, with nonce enforcement on and the
\* frontend built
PairInit == Init /\ REQUIRE_NONCE /\ indexHtmlTemplate

PairNext ==
    \/ \E req \in ProxyRequests : handleLiveRequest(req, SessionIds) /\ UNCHANGED routed
    \/ \E s \in SessionIds :
        \/ ClientOpen(s)
        \/ \E d \in Payloads : MsgCount < MaxPairMsgs /\ ClientMessage(s, d)
        \/ ClientClose(s)
        \/ ClientError(s)
        \/ UpstreamOpen(s)
        \/ UpstreamDialError(s)
        \/ \E d \in Payloads : MsgCount < MaxPairMsgs /\ UpstreamMessage(s, d)
        \/ UpstreamClose(s)
        \/ UpstreamError(s)

PairSpec == PairInit /\ [][PairNext]_vars

\* ========================================================================
\* Claims about the nonce store and the session endpoint (Spec)
\* ========================================================================
FiveMinutes == 5 * 60 * 1000

\* The last GET /api/session called consumeNonce with a nonce that was issued
LastConsumedIssued ==
    /\ last.consume # "notcalled"
    /\ MapHas(issuedAt, last.hdr.str)

\* C1: for every issued nonce n, the first consume(n) made before n's expiry
\* returns true, every later consume(n) returns false, and consume(n) never
\* returns true twice.
C1_SingleUse ==
    /\ \A n \in DOMAIN granted : granted[n] <= 1
    /\ LastConsumedIssued =>
         /\ (last.first /\ last.at < issuedAt[last.hdr.str] + FiveMinutes)
               => last.consume = "true"
         /\ ~last.first => last.consume = "false"

\* A nonce was consumed successfully, and presented again it was refused.
C1_Witness ==
    /\ LastConsumedIssued
    /\ ~last.first
    /\ last.consume = "false"
    /\ MapHas(granted, last.hdr.str)
    /\ last.at < issuedAt[last.hdr.str] + FiveMinutes

\* C4: with nonce enforcement on, GET /api/session answers 403 INVALID_NONCE
\* when the header is missing, 200 with a token for a freshly issued nonce
\* not yet presented and not expired, and 403 when that nonce comes again.
C4_SessionEndpoint ==
    (REQUIRE_NONCE /\ nSession > 0) =>
        /\ ~last.hdr.some => (last.status = 403 /\ last.code = "INVALID_NONCE")
        /\ (MapHas(issuedAt, last.hdr.str) /\ last.first
              /\ last.at < issuedAt[last.hdr.str] + FiveMinutes)
             => (last.status = 200 /\ last.token.wellformed /\ last.token.key = "server")
        /\ (MapHas(issuedAt, last.hdr.str) /\ ~last.first)
             => (last.status = 403 /\ last.code = "INVALID_NONCE")

\* A nonce was exchanged for a token, the 200 was returned, and the replay of
\* the same nonce got 403.
C4_Witness ==
    /\ REQUIRE_NONCE
    /\ responses >= 1
    /\ MapHas(granted, last.hdr.str)
    /\ ~last.first
    /\ last.status = 403

\* C8: consume of a nonce that is in the store but expired returns false and
\* removes it; consume of a nonce issued five minutes or more ago returns
\* false, swept or not; consume of a value never issued returns false and
\* leaves the store as it was.
C8_Step ==
    (nSession' # nSession /\ last'.consume # "notcalled") =>
        LET n == last'.hdr.str
        IN /\ (MapHas(sessionNonces, n) /\ now >= sessionNonces[n])
                => (last'.consume = "false" /\ ~MapHas(sessionNonces', n))
           /\ (MapHas(issuedAt, n) /\ now >= issuedAt[n] + FiveMinutes)
                => last'.consume = "false"
           /\ ~MapHas(issuedAt, n)
                => (last'.consume = "false" /\ sessionNonces' = sessionNonces)

C8_ExpiredOrUnknown == [][C8_Step]_vars

\* A nonce still in the store at its expiry time was presented for the first
\* time and refused, and the store no longer holds it.
C8_Witness ==
    /\ LastConsumedIssued
    /\ last.present
    /\ last.first
    /\ last.at >= issuedAt[last.hdr.str] + FiveMinutes
    /\ last.consume = "false"
    /\ ~MapHas(sessionNonces, last.hdr.str)

C15_Step ==
    nSession' # nSession =>
        /\ ~REQUIRE_NONCE =>
              /\ last'.status = 200
              /\ last'.token = createSessionToken(now)
              /\ signing' = signing + 1
              /\ last'.consume = "notcalled"
              /\ sessionNonces' = sessionNonces
              /\ granted' = granted
        /\ (REQUIRE_NONCE /\ (last'.status = 200 \/ signing' # signing)) =>
              /\ last'.consume = "true"
              /\ MapHas(sessionNonces, last'.hdr.str)
              /\ ~MapHas(sessionNonces', last'.hdr.str)

\* C15: with no SESSION_SECRET configured, every GET /api/session is answered
\* 200 with a token, whatever its nonce header, and the nonce store is left
\* as it was; with SESSION_SECRET configured, a token is signed only in a
\* request whose consumeNonce returned true.
C15_OpenModeIssuesAlways == [][C15_Step]_vars

\* Without enforcement, a request carrying an issued, expired nonce still in
\* the store was answered 200, its token was returned, and the nonce is
\* still in the store.
C15_Witness ==
    /\ ~REQUIRE_NONCE
    /\ last.status = 200
    /\ last.hdr.some
    /\ MapHas(issuedAt, last.hdr.str)
    /\ last.at >= issuedAt[last.hdr.str] + FiveMinutes
    /\ MapHas(sessionNonces, last.hdr.str)
    /\ responses >= 1

C21_Step ==
    (REQUIRE_NONCE /\ nSession' # nSession /\ Truthy(last'.hdr)) =>
        LET n == last'.hdr.str
        IN /\ MapHas(granted, n) =>
                /\ last'.status = 403
                /\ last'.token = NoToken
                /\ signing' = signing
           /\ last'.status = 200 =>
                /\ ~MapHas(granted, n)
                /\ MapHas(granted', n) /\ granted'[n] = 1
                /\ ~MapHas(sessionNonces', n)

\* C21: with enforcement on, a GET /api/session carrying a nonce that an
\* earlier request has already been granted is answered 403 with no token,
\* also while the earlier request is still suspended at its await; a request
\* answered 200 is the first one granted its nonce, and the nonce has left
\* the store before the handler reaches its await.
C21_OneTokenPerNonce == [][C21_Step]_vars

\* While the request granted a nonce was still suspended at the await of
\* createSessionToken, a second request with the same, unexpired nonce was
\* answered 403.
C21_Witness ==
    /\ REQUIRE_NONCE
    /\ signing = 1
    /\ responses = 0
    /\ DOMAIN granted = {last.hdr.str}
    /\ last.status = 403
    /\ last.at < issuedAt[last.hdr.str] + FiveMinutes

\* The tokens signed so far: those already returned and those whose request
\* is suspended at the await of createSessionToken
TokensIssued == signing + responses

C22_Counts ==
    REQUIRE_NONCE =>
        /\ TokensIssued <= nonceCount
        /\ TokensIssued = Cardinality(DOMAIN granted)
        /\ \A n \in DOMAIN granted :
              /\ granted[n] = 1
              /\ MapHas(issuedAt, n)
              /\ ~MapHas(sessionNonces, n)
        /\ DOMAIN sessionNonces \subseteq DOMAIN issuedAt

C22_Step ==
    /\ (REQUIRE_NONCE /\ TokensIssued' > TokensIssued) =>
          /\ TokensIssued' = TokensIssued + 1
          /\ ~MapHas(granted, last'.hdr.str)
          /\ MapHas(granted', last'.hdr.str)
          /\ MapHas(sessionNonces, last'.hdr.str)
          /\ now < issuedAt[last'.hdr.str] + FiveMinutes
    /\ ~(DOMAIN sessionNonces' \subseteq DOMAIN sessionNonces) => handleServeIndex

\* C22: with enforcement on, the tokens issued never outnumber the nonces
\* issued by page serves: every token was signed in a request that consumed,
\* before its expiry, a stored nonce no token had been signed for, and the
\* only step that adds a nonce to the store is handleServeIndex.
C22_TokensWithinNonces == [](C22_Counts) /\ [][C22_Step]_vars

\* Two pages were served and both nonces were exchanged for tokens, one of
\* them already returned; a third request, replaying a nonce, got 403.
C22_Witness ==
    /\ REQUIRE_NONCE
    /\ nonceCount = 2
    /\ TokensIssued = 2
    /\ responses >= 1
    /\ nSession = 3
    /\ last.status = 403

\* ========================================================================
\* Claims about the upgrade gatekeeper (GateSpec)
\* ========================================================================
\* The request declares a WebSocket upgrade (the header value, in any case)
DeclaresUpgrade(req) ==
    req.upgrade.some /\ req.upgrade.str \in {<<"websocket">>, <<"WebSocket">>}

\* The entries of the request's subprotocol list that begin with access_token.
OfferedEntries(req) == IF req.protocols.some THEN req.protocols.str ELSE <<>>
TokenPositions(req) ==
    {i \in DOMAIN OfferedEntries(req) : OfferedEntries(req)[i].pre = "access_token."}
HasTokenEntry(req) == TokenPositions(req) # {}
\* The first such entry, as a subprotocol name (without the list's white space)
MatchedEntry(req) ==
    LET i == CHOOSE x \in TokenPositions(req) : \A y \in TokenPositions(req) : x <= y
    IN Entry(FALSE, OfferedEntries(req)[i].pre, OfferedEntries(req)[i].body)

\* The request carries no token entry, or its token does not verify at time t
Unauthorized(req, t) ==
    ~HasTokenEntry(req) \/ ~verifySessionToken(MatchedEntry(req).body, t)

\* Session s gets its client socket, or its upstream socket, in this step
SocketCreated(s) ==
    \/ sess[s].clientSocket = "NONE" /\ sess'[s].clientSocket # "NONE"
    \/ sess[s].deepgramWs = "NULL" /\ sess'[s].deepgramWs # "NULL"

C3_Step ==
    /\ (gate' # gate /\ DeclaresUpgrade(gate'.req) /\ Unauthorized(gate'.req, now))
          => (gate'.status = 401 /\ gate'.sid = 0 /\ sess' = sess)
    /\ \A s \in SessionIds :
          SocketCreated(s) =>
             /\ gate'.status = 101 /\ gate'.sid = s
             /\ HasTokenEntry(gate'.req)
             /\ verifySessionToken(MatchedEntry(gate'.req).body, now)

\* C3: an upgrade request without an access_token. entry, or whose token does
\* not verify, is answered 401 and creates no client socket and dials no
\* upstream; every socket creation happens in a request whose token verified.
C3_NoSessionWithoutToken == [][C3_Step]_vars

\* A session was opened with a token, and the same token offered after its
\* expiry was answered 401.
C3_Witness ==
    /\ sess[1].pc = "dialing"
    /\ sess[1].protocol = TokenEntry(ValidToken)
    /\ gate.status = 401
    /\ DeclaresUpgrade(gate.req)
    /\ gate.req.protocols = Some(<<TokenEntry(ValidToken)>>)

\* C9: the gatekeeper answers 426 when no WebSocket upgrade is declared,
\* whatever the token; else 401 when no entry begins with access_token.; else
\* 401 when the token of the matched entry does not verify; else 101, echoing
\* exactly the matched entry and handing the socket to a proxy session.
C9_GateOrder ==
    gate.status # 0 =>
        IF ~DeclaresUpgrade(gate.req)
        THEN gate.status = 426 /\ gate.sid = 0
        ELSE IF ~HasTokenEntry(gate.req)
        THEN gate.status = 401 /\ gate.sid = 0
        ELSE IF ~verifySessionToken(MatchedEntry(gate.req).body, gate.at)
        THEN gate.status = 401 /\ gate.sid = 0
        ELSE /\ gate.status = 101
             /\ gate.protocol = MatchedEntry(gate.req)
             /\ gate.sid \in SessionIds
             /\ sess[gate.sid].pc # "absent"
             /\ sess[gate.sid].clientSocket # "NONE"
             /\ sess[gate.sid].protocol = MatchedEntry(gate.req)

\* An upgrade was accepted on a list whose token entry came second, after
\* white space.
C9_Witness ==
    /\ gate.status = 101
    /\ Len(OfferedEntries(gate.req)) = 2
    /\ OfferedEntries(gate.req)[2].ws
    /\ sess[1].protocol = TokenEntry(ValidToken)

OneHour == 60 * 60 * 1000

\* The token is a JWT carrying an intact signature made with the server's key
SignedByServer(tok) == tok.wellformed /\ tok.key = "server" /\ tok.intact

\* C16: a token offered at the gate verifies exactly when it is an untampered
\* JWT signed with the process's secret and the time is before its issue time
\* plus one hour; a malformed, unsigned, tampered or foreign token is refused
\* with a 401, as is a token at or after its expiry.
C16_VerifyExactly ==
    (gate.status # 0 /\ DeclaresUpgrade(gate.req) /\ HasTokenEntry(gate.req)) =>
        LET tok == MatchedEntry(gate.req).body
        IN /\ gate.status \in {101, 401}
           /\ gate.status = 101 <=>
                 (SignedByServer(tok) /\ gate.at < tok.iat * 1000 + OneHour)

\* A token issued at time 0 opened a session, and offered again exactly one
\* hour after its issue it was refused.
C16_Witness ==
    /\ sess[1].protocol = TokenEntry(createSessionToken(0))
    /\ gate.req.protocols = Some(<<TokenEntry(createSessionToken(0))>>)
    /\ DeclaresUpgrade(gate.req)
    /\ gate.at = OneHour
    /\ gate.status = 401

\* ========================================================================
\* Claims about one proxy session (ProxySpec)
\* ========================================================================
\* The payloads of the message events that found the other leg open
Delivered(events) ==
    LET kept == SelectSeq(events, LAMBDA e : e.open)
    IN [i \in DOMAIN kept |-> kept[i].data]
\* The payloads of all message events
Received(events) == [i \in DOMAIN events |-> events[i].data]
\* The payloads relayed to the client, among the calls on its socket
Relayed(calls) ==
    LET kept == SelectSeq(calls, LAMBDA c : c.kind = "data")
    IN [i \in DOMAIN kept |-> kept[i].data]

RECURSIVE IsSubseq(_, _)
IsSubseq(a, b) ==
    IF a = <<>> THEN TRUE
    ELSE IF b = <<>> THEN FALSE
    ELSE IF Head(a) = Head(b) THEN IsSubseq(Tail(a), Tail(b))
    ELSE IsSubseq(a, Tail(b))

\* C2: once one leg has closed or errored, in any lifecycle state, the server
\* starts closing the other, so no state has one leg closed and the other
\* open with no close under way.
C2_NoOrphan ==
    \A s \in SessionIds :
        /\ ~(sess[s].clientSocket = "CLOSED" /\ sess[s].deepgramWs = "OPEN")
        /\ ~(sess[s].deepgramWs = "CLOSED" /\ sess[s].clientSocket = "OPEN")

\* C5: when the dial fails on a client that is connected or connecting, the
\* calls on the client socket are exactly one send of an error frame with
\* code CONNECTION_FAILED followed by one close with code 3000.
C5_DialFailureReported ==
    \A s \in SessionIds :
        (sess[s].failure = "dial" /\ sess[s].clientAtFailure \in {"CONNECTING", "OPEN"})
          => /\ Len(sess[s].toClient) = 2
             /\ sess[s].toClient[1].kind = "error"
             /\ sess[s].toClient[1].code = "CONNECTION_FAILED"
             /\ sess[s].toClient[2].kind = "close"
             /\ Len(sess[s].toClient[2].args) >= 1
             /\ sess[s].toClient[2].args[1] = 3000

\* C6: in both directions, the payloads sent to the other leg are exactly the
\* payloads of the messages that found that leg open when they were received,
\* unchanged; a message not sent at its receipt is never sent.
C6_ForwardIffOpen ==
    \A s \in SessionIds :
        /\ sess[s].toUpstream = Delivered(sess[s].fromClient)
        /\ Relayed(sess[s].toClient) = Delivered(sess[s].fromUpstream)

\* A client message was dropped (upstream not open yet), a later one was
\* forwarded, and an upstream message was relayed.
C6_Witness ==
    /\ Len(sess[1].fromClient) = 2
    /\ ~sess[1].fromClient[1].open
    /\ sess[1].fromClient[2].open
    /\ Len(sess[1].toUpstream) = 1
    /\ Len(Relayed(sess[1].toClient)) = 1

\* C7: in each direction the forwarded messages are a subsequence, in the same
\* order, of the messages received from that direction's source.
C7_OrderKept ==
    \A s \in SessionIds :
        /\ IsSubseq(sess[s].toUpstream, Received(sess[s].fromClient))
        /\ IsSubseq(Relayed(sess[s].toClient), Received(sess[s].fromUpstream))

\* Two different payloads were forwarded to upstream, after a dropped one.
C7_Witness ==
    /\ Len(sess[1].fromClient) = 3
    /\ Len(sess[1].toUpstream) = 2
    /\ sess[1].toUpstream[1] # sess[1].toUpstream[2]

C10_Step ==
    \A s \in SessionIds :
        /\ (sess'[s].clientClosedIn = "Relaying" /\ sess[s].clientClosedIn # "Relaying")
              => sess'[s].deepgramWs \in {"CLOSING", "CLOSED"}
        /\ sess'[s].clientClosedIn = "Relaying"
              => /\ sess'[s].toUpstream = sess[s].toUpstream
                 /\ sess'[s].toClient = sess[s].toClient

\* C10: when the client socket closes while the session is relaying, the server
\* starts closing the upstream socket in that event, and from that event on
\* nothing is sent on either socket of the session.
C10_ClientCloseStopsRelay == [][C10_Step]_vars

\* The client closed while relaying, the upstream socket is closing, and an
\* upstream message that arrived afterwards was not relayed.
C10_Witness ==
    /\ sess[1].clientClosedIn = "Relaying"
    /\ sess[1].deepgramWs = "CLOSING"
    /\ Len(sess[1].fromUpstream) = 2
    /\ sess[1].fromUpstream[1].open
    /\ ~sess[1].fromUpstream[2].open

\* C11: whenever session setup has raised, by a throw of the WebSocket
\* constructor or by a failed dial, a client that was connecting or open at
\* that moment has been sent an error frame with code CONNECTION_FAILED and
\* its socket is closing or closed, and the upstream socket, if one was
\* created, is closing or closed.
C11_SetupFailureReported ==
    \A s \in SessionIds :
        sess[s].failure # "none" =>
            /\ sess[s].clientAtFailure \in {"CONNECTING", "OPEN"} =>
                 /\ \E i \in DOMAIN sess[s].toClient :
                       /\ sess[s].toClient[i].kind = "error"
                       /\ sess[s].toClient[i].code = "CONNECTION_FAILED"
                 /\ sess[s].clientSocket \in {"CLOSING", "CLOSED"}
            /\ sess[s].deepgramWs \in {"NULL", "CLOSING", "CLOSED"}

\* The upstream socket closed or errored while session s was relaying and
\* its client socket was open
UpstreamEndedRelaying(s) ==
    /\ sess[s].upstreamEnd # "none"
    /\ sess[s].upstreamEndIn = "Relaying"
    /\ sess[s].clientAtUpstreamEnd = "OPEN"

\* The calls on the client socket of s end with an error frame, then a close
EndsWithErrorThenClose(s) ==
    LET calls == sess[s].toClient
        n == Len(calls)
    IN /\ n >= 2
       /\ calls[n - 1].kind = "error"
       /\ calls[n].kind = "close"

\* C12 (as stated): when the upstream socket closes or errors while relaying
\* and the client socket is open, the client is sent an error frame and only
\* then closed, for the close event as well as for the error event.
C12_UpstreamEndReported ==
    \A s \in SessionIds : UpstreamEndedRelaying(s) => EndsWithErrorThenClose(s)

\* C12 (amended): when the upstream socket errors while relaying and the
\* client socket is open, the client is sent an error frame with code
\* DEEPGRAM_ERROR and then closed; when the upstream socket closes without an
\* error, the open client socket is closed with no error frame before it.
C12_UpstreamErrorReported ==
    \A s \in SessionIds :
        UpstreamEndedRelaying(s) =>
            LET calls == sess[s].toClient
                n == Len(calls)
            IN /\ n >= 1
               /\ calls[n] = CloseCall(<<>>)
               /\ sess[s].clientSocket \in {"CLOSING", "CLOSED"}
               /\ sess[s].upstreamEnd = "error" =>
                    /\ EndsWithErrorThenClose(s)
                    /\ calls[n - 1].code = "DEEPGRAM_ERROR"
               /\ sess[s].upstreamEnd = "close" =>
                    \A i \in 1..n : calls[i].kind # "error"

\* The upstream socket closed without an error after a message had been
\* relayed, and the client got a close with no error frame.
C12_Witness ==
    /\ UpstreamEndedRelaying(1)
    /\ sess[1].upstreamEnd = "close"
    /\ Len(sess[1].toClient) = 2
    /\ sess[1].toClient[1].kind = "data"
    /\ sess[1].toClient[2].kind = "close"

\* C13: every error frame sent to a client is followed at once by a close
\* call on that socket, and nothing is sent on the socket after it: no
\* relayed message and no second error frame.
C13_ErrorFrameLast ==
    \A s \in SessionIds :
        \A i \in DOMAIN sess[s].toClient :
            sess[s].toClient[i].kind = "error" =>
                /\ i + 1 = Len(sess[s].toClient)
                /\ sess[s].toClient[i + 1].kind = "close"
                /\ sess[s].clientSocket \in {"CLOSING", "CLOSED"}

\* A message was relayed, the upstream socket then errored, the client got
\* the error frame and the close, and its socket has closed.
C13_Witness ==
    /\ sess[1].upstreamEnd = "error"
    /\ Len(sess[1].toClient) = 3
    /\ sess[1].toClient[1].kind = "data"
    /\ sess[1].toClient[2] = ErrorFrame("Deepgram connection error", "DEEPGRAM_ERROR")
    /\ sess[1].clientSocket = "CLOSED"

\* ========================================================================
\* Claims about two concurrent proxy sessions (PairSpec)
\* ========================================================================
\* Both sessions exist
BothLive == \A s \in SessionIds : sess[s].pc # "absent"

C14_Step ==
    \A s \in SessionIds : \A t \in SessionIds :
        (s # t /\ sess'[s] # sess[s]) => sess'[t] = sess[t]

\* C14: a step that changes one session, whether a socket event of that
\* session or its creation, leaves the record of every other session as it
\* was: its socket states, its handlers' position and its forwarded streams.
C14_SessionsIsolated == [][C14_Step]_vars

\* Session 1 failed its dial and was closed with an error frame while
\* session 2, created before that, went on to relay in both directions.
C14_Witness ==
    /\ BothLive
    /\ sess[1].failure = "dial"
    /\ sess[1].clientSocket = "CLOSING"
    /\ Lifecycle(sess[2]) = "Relaying"
    /\ Len(sess[2].toUpstream) = 1
    /\ Len(Relayed(sess[2].toClient)) = 1

\* ========================================================================
\* Claims about the upstream URL (UrlSpec)
\* ========================================================================
\* The index of the first sym in str, 0 when there is none
IndexOf(str, sym) ==
    LET hits == {i \in DOMAIN str : str[i] = sym}
    IN IF hits = {} THEN 0 ELSE CHOOSE i \in hits : \A j \in hits : i <= j

\* The part of str after its first sym (empty when there is none)
After(str, sym) ==
    IF IndexOf(str, sym) = 0 THEN <<>> ELSE SubSeq(str, IndexOf(str, sym) + 1, Len(str))

\* The part of str before its first sym (all of it when there is none)
Before(str, sym) ==
    IF IndexOf(str, sym) = 0 THEN str ELSE SubSeq(str, 1, IndexOf(str, sym) - 1)

RECURSIVE SplitOn(_, _)
SplitOn(str, sym) ==
    IF IndexOf(str, sym) = 0 THEN <<str>>
    ELSE <<Before(str, sym)>> \o SplitOn(After(str, sym), sym)

\* The query parameters the server behind a URL receives: the text between
\* the first "?" and the fragment, cut at each "&", each piece cut at its
\* first "="
ReceivedParams(url) ==
    LET pieces == SplitOn(Before(After(url, "?"), "#"), "&")
    IN [i \in DOMAIN pieces |->
          [name |-> Before(pieces[i], "="), value |-> After(pieces[i], "=")]]

\* The value the claim promises for parameter n of query q
Promised(q, n, default) == IF q[n].some THEN q[n].str ELSE default

PromisedParams(q) ==
    <<[name |-> <<"model">>, value |-> Promised(q, "model", <<"nova-2">>)],
      [name |-> <<"encoding">>, value |-> Promised(q, "encoding", <<"linear16">>)],
      [name |-> <<"sample_rate">>, value |-> Promised(q, "sample_rate", <<"16000">>)],
      [name |-> <<"channels">>, value |-> Promised(q, "channels", <<"1">>)],
      [name |-> <<"punctuate">>, value |-> Promised(q, "punctuate", <<"true">>)],
      [name |-> <<"interim_results">>, value |-> Promised(q, "interim_results", <<"true">>)]>>

\* C17: for every session whose upstream socket was dialed, the parameters
\* the upstream receives from the dialed URL are exactly the six of the
\* claim, each with the client's value when it supplied one and with the
\* default otherwise.
C17_ParamsPassedThrough ==
    \A s \in SessionIds :
        sess[s].deepgramWs # "NULL" =>
            ReceivedParams(sess[s].url) = PromisedParams(sess[s].query)

\* ========================================================================
\* Claims about the router (RouterSpec)
\* ========================================================================
\* The request matches an entry of the method and path table
InRouteTable(req) ==
    \/ req.method = "OPTIONS"
    \/ /\ req.method = "GET"
       /\ req.path \in {"/", "/index.html", "/api/session", "/api/live-transcription",
                        "/api/metadata"}

C18_Step ==
    (routed' # routed /\ ~InRouteTable(routed'.req)) =>
        /\ routed'.status = 404
        /\ routed'.body = "json"
        /\ UNCHANGED <<authVars, sess, gate>>

\* C18: a request that matches no entry of the table (GET / or /index.html,
\* GET /api/session, GET /api/live-transcription, GET /api/metadata, OPTIONS
\* on any path) is answered with the JSON 404 and changes no state.
C18_UnroutedIs404 == [][C18_Step]_vars

\* ========================================================================
\* Claims about the dial of one proxy session (ProxyFairSpec)
\* ========================================================================
\* C19: every session that is waiting for its upstream dial eventually
\* leaves that state, whether or not the upstream ever opens or errors.
C19_DialBounded ==
    \A s \in SessionIds : (sess[s].pc = "dialing") ~> (sess[s].pc # "dialing")

\* ========================================================================
\* Claims about the lifecycle of one proxy session (ProxySpec)
\* ========================================================================
\* The lifecycle changes of section 4.5, with the creation of the session; a
\* dial that fails on a client already closed goes from Connecting to Closed
\* at once and is counted as passing through Closing.
LifecycleSteps ==
    {<<"None", "Connecting">>, <<"None", "Closing">>,
     <<"Connecting", "Relaying">>, <<"Connecting", "Closing">>,
     <<"Connecting", "Closed">>,
     <<"Relaying", "Closing">>, <<"Closing", "Closed">>}

\* The client socket of s closes in this step (its close or its error event)
ClientEnds(s) == sess[s].clientSocket # "CLOSED" /\ sess'[s].clientSocket = "CLOSED"
\* The upstream socket of s closes in this step (its close or its error event)
UpstreamEnds(s) == sess[s].deepgramWs # "CLOSED" /\ sess'[s].deepgramWs = "CLOSED"

C20_Step ==
    \A s \in SessionIds :
        LET from == Lifecycle(sess[s])
            to == Lifecycle(sess'[s])
        IN /\ from # to => <<from, to>> \in LifecycleSteps
           /\ (from # "Relaying" /\ to = "Relaying") =>
                 (sess[s].deepgramWs = "CONNECTING" /\ sess'[s].deepgramWs = "OPEN")
           /\ (from = "Relaying" /\ ClientEnds(s)) =>
                 sess'[s].deepgramWs \in {"CLOSING", "CLOSED"}
           /\ (from = "Relaying" /\ UpstreamEnds(s)) =>
                 sess'[s].clientSocket \in {"CLOSING", "CLOSED"}
           /\ from = "Closed" => sess'[s] = sess[s]

\* C20: a session changes lifecycle state only along Connecting to Relaying,
\* Connecting to Closing, Relaying to Closing and Closing to Closed; it
\* enters Relaying only in the step in which its upstream socket opens; a
\* close or error of either socket while Relaying starts the close of the
\* other socket in that step; Relaying is never entered again once left,
\* and nothing changes once Closed.
C20_LifecycleOrder == [][C20_Step]_vars

====
